---- MODULE Spec2Model ----
(***************************************************************************)
(* A model of the RBC statement parser: the category index, the two        *)
(* format parsers (MyMainMoney = "Format A", VISAAvionUnlimited =          *)
(* "Format B"), the per-statement and per-batch drivers and the            *)
(* virtual-debit correction filter.                                        *)
(*                                                                         *)
(* A text line is a sequence of tokens (strings); a regular expression of  *)
(* the source is an operator over the tokens of a line.  The empty string  *)
(* '' is the empty sequence.  Python's None is the string "None" where a   *)
(* string is expected and the empty tuple where a date is expected.        *)
(***************************************************************************)
EXTENDS Integers, Sequences, FiniteSets, TLC

VARIABLES
    profile,                 \* which family of input lines this run draws from
    budget,                  \* statements, pages and lines the environment may still supply
    categories,              \* main.categories: the Category Index
    pc,                      \* where get_expenses is: batch, statement, filter, done, raised
    error,                   \* the exception that ended the run, "" when none
    stmt_count,              \* statements taken from the iterator of process_statements
    fmt,                     \* the parser class of the current statement
    current_date,            \* Parser.current_date
    current_year,            \* Parser.current_year
    page_count,              \* pages of the current statement already processed
    pages_expenses,          \* process_statement's pages_expenses
    pages_nsfs,              \* process_statement's pages_nsfs
    previous_page_last_line, \* process_statement's previous_page_last_line
    all_expenses,            \* process_statements' all_expenses (the list the filter mutates)
    all_nsfs,                \* process_statements' all_nsfs
    page,                    \* the lines of the page scanned last
    page_prev,               \* the previous_line_item argument of that scan
    ret,                     \* what that scan returned (or that it raised)
    log,                     \* the lines that scan examined, in order
    runs,                    \* the expense list before and after each filter pass
    filter_log               \* the iterations of the filter pass run last, in order

vars == <<profile, budget, categories, pc, error, stmt_count, fmt, current_date,
          current_year, page_count, pages_expenses, pages_nsfs,
          previous_page_last_line, all_expenses, all_nsfs, page, page_prev,
          ret, log, runs, filter_log>>

(***************************************************************************)
(* Bounds of the model.                                                    *)
(***************************************************************************)
\* A run is given a budget: every statement, every page and every line of text
\* the environment supplies takes one unit of it.
MaxInput == 7        \* budget of a scanning run
MaxInputE2E == 8     \* budget of an end-to-end run on virtual-debit lines
MaxInputBatch == 8   \* budget of a batch run
MaxInputTags == 7    \* budget of a run on NSF and virtual-debit lines
MaxExpenses == 6     \* length of a list handed to the filter on its own

(***************************************************************************)
(* Plain values.                                                           *)
(***************************************************************************)
None == "None"
NoDate == <<>>          \* None where a datetime.date is expected
EmptyDate == <<"">>     \* the string '' stored in a date field
Range(s) == {s[i] : i \in 1..Len(s)}

\* list.remove(x): drops the first element equal to x (objects carry an oid,
\* Expense defines no __eq__, so equality is identity).
Remove(s, x) ==
    LET i == CHOOSE k \in 1..Len(s) : s[k] = x /\ \A j \in 1..(k - 1) : s[j] # x
    IN  SubSeq(s, 1, i - 1) \o SubSeq(s, i + 1, Len(s))

\* An Expense as parsers/expense.py builds it: class defaults, then the date.
Expense(oid, date) ==
    [oid |-> oid, kind |-> "Expense", date |-> date, page |-> "", category |-> "",
     amount |-> 0, line_number |-> 0, line |-> "", visa_debit_id |-> None,
     reversal |-> FALSE]

\* An NSF as parsers/nsf.py builds it.
NSF(oid, date) ==
    [oid |-> oid, kind |-> "NSF", date |-> date, page |-> "", category |-> "",
     amount |-> 0, line_number |-> 0, line |-> ""]

(***************************************************************************)
(* filter_visa_debit_corrections (main.py).  The for loop walks the list   *)
(* with a list iterator, which is an index into the list as it is now:     *)
(* the loop ends when the index reaches the current length, and a remove   *)
(* of elements at or before the index shifts the rest under the iterator.  *)
(* index is 1-based here: it is the position the iterator yields next.     *)
(***************************************************************************)
MapPut(m, k, v) == [x \in DOMAIN m \cup {k} |-> IF x = k THEN v ELSE m[x]]

\* Mutant of RemovePair: the pair is taken to be the mapped record and the
\* record that follows it in the list.
RemovePairAdjacent(expenses, first, expense) ==
    IF first \in Range(expenses)
    THEN LET i == CHOOSE k \in 1..Len(expenses) : expenses[k] = first
             rest == Remove(expenses, first)
         IN  IF i <= Len(rest) THEN Remove(rest, rest[i]) ELSE rest
    ELSE expenses

\* Mutant of RemovePair: the two removes in the other order, so the record at
\* hand is gone before the remove of the mapped record raises.
RemovePairSwapped(expenses, first, expense) ==
    IF first \in Range(expenses)
    THEN Remove(Remove(expenses, first), expense)
    ELSE Remove(expenses, expense)

\* The try block: the first remove raises ValueError when the mapped record is
\* no longer in the list, and then the second remove is not reached.
RemovePair(expenses, first, expense) ==
    IF first \in Range(expenses)
    THEN Remove(Remove(expenses, first), expense)
    ELSE expenses

\* str(expense), which the two debug f-strings of the loop evaluate whatever the
\* verbosity: self.date.isoformat() raises AttributeError unless the date field
\* holds a date.
StrRaises(expense) == expense.date \in {NoDate, EmptyDate}

\* One iteration of the loop as the pass records it.
FilterEntry(index, expense, what, before, after) ==
    [index |-> index, expense |-> expense, what |-> what,
     before |-> before, after |-> after]

\* The loop from the iterator's position index on: the list as the pass leaves
\* it, the exception that ended the pass ("" when none) and its iterations.
RECURSIVE FilterLoop(_, _, _, _)
FilterLoop(expenses, index, virtual_debit_map, entries) ==
    IF index > Len(expenses)
    THEN [expenses |-> expenses, error |-> "", entries |-> entries]
    ELSE LET expense == expenses[index]
             id == expense.visa_debit_id
             entry(what, after) ==
                 Append(entries, FilterEntry(index, expense, what, expenses, after))
         IN  IF id # None
             THEN IF StrRaises(expense)
                  THEN [expenses |-> expenses, error |-> "AttributeError",
                        entries |-> entry("raised", expenses)]
                  ELSE IF id \in DOMAIN virtual_debit_map
                  THEN LET first == virtual_debit_map[id]
                           after == RemovePair(expenses, first, expense)
                       IN  FilterLoop(after, index + 1, virtual_debit_map,
                                      entry(IF first \in Range(expenses)
                                            THEN "removed" ELSE "failed", after))
                  ELSE FilterLoop(expenses, index + 1,
                                  MapPut(virtual_debit_map, id, expense),
                                  entry("mapped", expenses))
             ELSE FilterLoop(expenses, index + 1, virtual_debit_map,
                             entry("untagged", expenses))

filter_visa_debit_corrections(expenses) == FilterLoop(expenses, 1, <<>>, <<>>)

(***************************************************************************)
(* Tokens and the regular expressions of the two parsers.                  *)
(***************************************************************************)
\* MyMainMoney.start_of_items and VISAAvionUnlimited.start_of_items, verbatim.
StartOfItemsA == <<"Date Description Withdrawals ($) Deposits ($) Balance ($)">>
StartOfItemsB == <<"TRANSACTION POSTINGACTIVITY DESCRIPTION AMOUNT ($)DATE DATE">>

\* What '%d %b' reads from a date token: <<day, month>>.
DayMonthA ==
    ("28 Dec" :> <<28, 12>>) @@ ("30 Dec" :> <<30, 12>>) @@
    ("2 Jan" :> <<2, 1>>) @@ ("15 Jan" :> <<15, 1>>) @@ ("3 Jan" :> <<3, 1>>)
DayMonthB ==
    ("DEC 28" :> <<28, 12>>) @@ ("DEC 30" :> <<30, 12>>) @@
    ("JAN 02" :> <<2, 1>>) @@ ("JAN 15" :> <<15, 1>>)

\* date_regex of my_main_money.py, r'(^\d+ (Mon))', used with match: the line
\* begins with a day and a month abbreviation.
DateMatchA(line) == Len(line) > 0 /\ line[1] \in DOMAIN DayMonthA
\* date_regex of visa_avion_unlimited.py, r'^((MON) (\d+))', used with search:
\* the anchor ties it to the start of the line all the same.
DateMatchB(line) == Len(line) > 0 /\ line[1] \in DOMAIN DayMonthB

\* Decimal(amount.replace(',', '')) of the text a dollar regex captured, in cents.
AmountOf ==
    ("4.50" :> 450) @@ ("7.25" :> 725) @@ ("1,234.56" :> 123456) @@
    ("$12.34" :> 1234) @@ ("$29.00" :> 2900)
IsAmount(tok) == tok \in DOMAIN AmountOf
\* The leading \$ of Format B's dollar regex.
HasDollarSign(tok) == tok \in {"$12.34", "$29.00"}

\* dollar_regex of my_main_money.py, r'((\d{1,3},?)+(\.\d{2}))', used with
\* search: the leftmost amount of the line, 0 when there is none.
FirstAmountAt(line) ==
    IF \E i \in 1..Len(line) : IsAmount(line[i])
    THEN CHOOSE i \in 1..Len(line) :
             IsAmount(line[i]) /\ \A j \in 1..(i - 1) : ~IsAmount(line[j])
    ELSE 0

\* dollar_regex of visa_avion_unlimited.py, r'\$((\d{1,3},?)+(\.\d{2}))$', used
\* with search: the line ends in a $ amount.
TrailingDollar(line) ==
    Len(line) > 0 /\ IsAmount(line[Len(line)]) /\ HasDollarSign(line[Len(line)])

\* nsf_regex, r'Item returned NSF ((\d{1,3},?)+(\.\d{2}))', used with match:
\* the marker at the very start of the line, an amount right after it.
NSFMarker == "Item returned NSF"
NSFMatch(line) == Len(line) >= 2 /\ line[1] = NSFMarker /\ IsAmount(line[2])

\* visa_debit_regex, r'Visa Debit (purchase|correction|refund) - (\d+)': the
\* groups (mode, purchase_id) of a header token.
VisaDebitGroups ==
    ("Visa Debit purchase - 1" :> <<"purchase", "1">>) @@
    ("Visa Debit correction - 1" :> <<"correction", "1">>) @@
    ("Visa Debit refund - 1" :> <<"refund", "1">>) @@
    ("Visa Debit purchase - 2" :> <<"purchase", "2">>) @@
    ("Visa Debit correction - 2" :> <<"correction", "2">>)
\* visa_debit_regex.search(previous_line): the position of the leftmost header, or 0.
VisaDebitAt(line) ==
    IF \E i \in 1..Len(line) : line[i] \in DOMAIN VisaDebitGroups
    THEN CHOOSE i \in 1..Len(line) :
             /\ line[i] \in DOMAIN VisaDebitGroups
             /\ \A j \in 1..(i - 1) : line[j] \notin DOMAIN VisaDebitGroups
    ELSE 0

\* 'category_pattern in line' is a substring test: the patterns a token holds.
PatternsOf(tok) == IF tok = "COFFEE SHOP" THEN {"COFFEE SHOP", "COFFEE"} ELSE {tok}
PatternIn(pattern, line) == \E i \in 1..Len(line) : pattern \in PatternsOf(line[i])

(***************************************************************************)
(* load_categories (main.py): the configuration is walked page by page,    *)
(* category by category, pattern by pattern; categories is a dict, so a    *)
(* pattern met again keeps its place and takes the new value.  The index   *)
(* is kept as the sequence of the dict's items in iteration order.         *)
(***************************************************************************)
NullName == "null"       \* JSON null as a friendly name

IndexOfPattern(cats, pattern) ==
    IF \E k \in 1..Len(cats) : cats[k].pattern = pattern
    THEN CHOOSE k \in 1..Len(cats) : cats[k].pattern = pattern
    ELSE 0

DictPut(cats, entry) ==
    LET k == IndexOfPattern(cats, entry.pattern)
    IN  IF k = 0 THEN Append(cats, entry) ELSE [cats EXCEPT ![k] = entry]

RECURSIVE LoadLoop(_, _, _)
LoadLoop(config, i, cats) ==
    IF i > Len(config) THEN cats
    ELSE LET c == config[i]
             friendly_name == IF c.friendly_name = NullName THEN c.pattern
                              ELSE c.friendly_name
         IN  LoadLoop(config, i + 1,
                 DictPut(cats, [pattern |-> c.pattern, page |-> c.page,
                                category |-> c.category,
                                friendly_name |-> friendly_name]))

load_categories(config) == LoadLoop(config, 1, <<>>)

\* Mutant of FirstMatch: the last pattern of the index the line holds wins.
LastMatch(cats, line) ==
    IF \E k \in 1..Len(cats) : PatternIn(cats[k].pattern, line)
    THEN CHOOSE k \in 1..Len(cats) :
             /\ PatternIn(cats[k].pattern, line)
             /\ \A j \in (k + 1)..Len(cats) : ~PatternIn(cats[j].pattern, line)
    ELSE 0

\* The loop 'for category_pattern in self.categories: if category_pattern in
\* line' of both process_line methods: the place in the index of the first
\* pattern the line holds, 0 when the loop falls through.
FirstMatch(cats, line) ==
    IF \E k \in 1..Len(cats) : PatternIn(cats[k].pattern, line)
    THEN CHOOSE k \in 1..Len(cats) :
             /\ PatternIn(cats[k].pattern, line)
             /\ \A j \in 1..(k - 1) : ~PatternIn(cats[j].pattern, line)
    ELSE 0

(***************************************************************************)
(* The date tracker at the head of each process_line.  A date is           *)
(* <<year, month, day>>; strptime reads the token with the year tracked    *)
(* when the line is met (the date tokens of the model are valid days).     *)
(***************************************************************************)
Truthy(date) == date # NoDate /\ date # EmptyDate

\* Mutant of TrackDateA: the assignment of current_date sits outside the if, so
\* a line with no date token clears it.
TrackDateAReset(line, cd, cy) ==
    IF DateMatchA(line)
    THEN LET dm == DayMonthA[line[1]]
             new_date == <<cy, dm[2], dm[1]>>
             cy1 == IF cd = NoDate /\ new_date[2] = 12 THEN cy - 1 ELSE cy
             cy2 == IF cd # NoDate /\ cd[2] = 12 /\ new_date[2] = 1
                    THEN cy1 + 1 ELSE cy1
         IN  [current_date |-> new_date, current_year |-> cy2]
    ELSE [current_date |-> NoDate, current_year |-> cy]

\* MyMainMoney.process_line, 'if date_match is not None:' block.
TrackDateA(line, cd, cy) ==
    IF DateMatchA(line)
    THEN LET dm == DayMonthA[line[1]]
             new_date == <<cy, dm[2], dm[1]>>
             cy1 == IF cd = NoDate /\ new_date[2] = 12 THEN cy - 1 ELSE cy
             cy2 == IF cd # NoDate /\ cd[2] = 12 /\ new_date[2] = 1
                    THEN cy1 + 1 ELSE cy1
         IN  [current_date |-> new_date, current_year |-> cy2]
    ELSE [current_date |-> cd, current_year |-> cy]

\* VISAAvionUnlimited.process_line, 'if date_match is not None:' block:
\* self.current_date is assigned before the two year rules read it.
TrackDateB(line, cd, cy) ==
    IF DateMatchB(line)
    THEN LET dm == DayMonthB[line[1]]
             new_date == <<cy, dm[2], dm[1]>>
             cd1 == new_date
             cy1 == IF cd1 = NoDate /\ new_date[2] = 12 THEN cy - 1 ELSE cy
             cy2 == IF cd1 # NoDate /\ cd1[2] = 12 /\ new_date[2] = 1
                    THEN cy1 + 1 ELSE cy1
         IN  [current_date |-> cd1, current_year |-> cy2]
    ELSE [current_date |-> cd, current_year |-> cy]

(***************************************************************************)
(* process_line of the two parsers.  The result names the parser state     *)
(* after the call and what the call did: returned None, returned an item,  *)
(* or raised.                                                              *)
(***************************************************************************)
NoItem == [kind |-> "None"]

\* Mutant of TagVisaDebit: the refund branch is missing, only a correction
\* sets the reversal flag.
TagVisaDebitNoRefund(expense, previous_line) ==
    LET v == VisaDebitAt(previous_line)
    IN  IF v = 0 THEN expense
        ELSE LET groups == VisaDebitGroups[previous_line[v]]
             IN  [expense EXCEPT !.reversal = (groups[1] = "correction"),
                                 !.visa_debit_id = groups[2]]

\* The previous-line check of MyMainMoney.process_line: the id and the
\* reversal flag a virtual-debit header puts on the record.
TagVisaDebit(expense, previous_line) ==
    LET v == VisaDebitAt(previous_line)
    IN  IF v = 0 THEN expense
        ELSE LET groups == VisaDebitGroups[previous_line[v]]
             IN  [expense EXCEPT !.reversal = (groups[1] \in {"correction", "refund"}),
                                 !.visa_debit_id = groups[2]]

\* Mutant of A_process_line: a matched line with no amount is passed over
\* (process_line returns None) instead of raising.
A_process_line_NoRaise(cats, oid, line_number, line, previous_line, cd, cy) ==
    LET t == TrackDateA(line, cd, cy)
        out(outcome, item) == [current_date |-> t.current_date,
                               current_year |-> t.current_year,
                               outcome |-> outcome, item |-> item]
    IN  IF NSFMatch(line)
        THEN out("item", [NSF(oid, t.current_date) EXCEPT !.amount = AmountOf[line[2]]])
        ELSE LET processing_result == TagVisaDebit(Expense(oid, t.current_date),
                                                   previous_line)
                 k == FirstMatch(cats, line)
                 a == FirstAmountAt(line)
             IN  IF k = 0 \/ a = 0 THEN out("None", NoItem)
                 ELSE out("item", [processing_result EXCEPT
                                       !.page = cats[k].page,
                                       !.category = cats[k].category,
                                       !.amount = AmountOf[line[a]],
                                       !.line = cats[k].friendly_name])

A_process_line(cats, oid, line_number, line, previous_line, cd, cy) ==
    LET t == TrackDateA(line, cd, cy)
        out(outcome, item) == [current_date |-> t.current_date,
                               current_year |-> t.current_year,
                               outcome |-> outcome, item |-> item]
    IN  IF NSFMatch(line)
        THEN out("item", [NSF(oid, t.current_date) EXCEPT !.amount = AmountOf[line[2]]])
        ELSE LET processing_result == TagVisaDebit(Expense(oid, t.current_date),
                                                   previous_line)
                 k == FirstMatch(cats, line)
                 a == FirstAmountAt(line)
             IN  IF k = 0 THEN out("None", NoItem)
                 ELSE IF a = 0 THEN out("ValueError", NoItem)
                 ELSE out("item", [processing_result EXCEPT
                                       !.page = cats[k].page,
                                       !.category = cats[k].category,
                                       !.amount = AmountOf[line[a]],
                                       !.line = cats[k].friendly_name])

B_process_line(cats, oid, line_number, line, previous_line, cd, cy) ==
    LET t == TrackDateB(line, cd, cy)
        k == FirstMatch(cats, line)
    IN  [current_date |-> t.current_date, current_year |-> t.current_year,
         outcome |-> IF k = 0 THEN "None" ELSE "item",
         item |-> IF k = 0 THEN NoItem
                  ELSE [Expense(oid, t.current_date) EXCEPT
                            !.page = cats[k].page,
                            !.category = cats[k].category,
                            !.line = cats[k].friendly_name,
                            !.line_number = line_number]]

(***************************************************************************)
(* Parser.process_page_lines (common.py), used by MyMainMoney.  st is the  *)
(* state of the call: its locals, the parser's fields, and the log of the  *)
(* process_line calls it made.                                             *)
(***************************************************************************)
\* 'if processed_item.date: ... else: processed_item.date = f"{current_date}"',
\* where the local current_date is '' at that point.
BackfillDate(item) == IF Truthy(item.date) THEN item ELSE [item EXCEPT !.date = EmptyDate]

LogEntry(pos, line, st, r, amount_pos) ==
    [pos |-> pos, line |-> line, previous_line |-> st.previous_line_item,
     date_before |-> st.current_date, year_before |-> st.current_year,
     date_after |-> r.current_date, year_after |-> r.current_year,
     outcome |-> r.outcome, item |-> r.item, amount_pos |-> amount_pos]

ScanStart(previous_line_item, cd, cy) ==
    [found_start |-> FALSE, previous_line_item |-> previous_line_item,
     current_date |-> cd, current_year |-> cy,
     processed_expenses |-> <<>>, processed_nsfs |-> <<>>,
     cursor |-> 1, line_number |-> 1, log |-> <<>>, error |-> ""]

\* Mutant of BeforeStart: the scanner does not wait for the header marker.
BeforeStartNever(st) == FALSE

\* 'if not found_start: continue' of both scanners.
BeforeStart(st) == ~st.found_start

\* One iteration of the for loop over enumerate(line_items, start=1).
A_Step(st, cats, oidbase, line_number, line_item) ==
    IF line_item = StartOfItemsA THEN [st EXCEPT !.found_start = TRUE]
    ELSE IF BeforeStart(st) THEN st
    ELSE LET r == A_process_line(cats, Append(oidbase, line_number), line_number,
                                 line_item, st.previous_line_item,
                                 st.current_date, st.current_year)
             st1 == [st EXCEPT !.current_date = r.current_date,
                               !.current_year = r.current_year,
                               !.log = Append(@, LogEntry(line_number, line_item, st, r, 0))]
             st2 == [st1 EXCEPT !.previous_line_item = line_item]
             item == BackfillDate(r.item)
         IN  IF r.outcome = "ValueError" THEN [st1 EXCEPT !.error = "ValueError"]
             ELSE IF r.outcome = "None" THEN st2
             ELSE IF item.kind = "NSF"
                  THEN [st2 EXCEPT !.processed_nsfs = Append(@, item)]
             ELSE IF item.line # ""
                  THEN [st2 EXCEPT !.processed_expenses = Append(@, item)]
             ELSE st2

RECURSIVE A_PageLoop(_, _, _, _, _)
A_PageLoop(st, cats, oidbase, line_items, i) ==
    IF st.error # "" \/ i > Len(line_items) THEN st
    ELSE A_PageLoop(A_Step(st, cats, oidbase, i, line_items[i]),
                    cats, oidbase, line_items, i + 1)

A_process_page_lines(cats, oidbase, line_items, previous_line_item, cd, cy) ==
    A_PageLoop(ScanStart(previous_line_item, cd, cy), cats, oidbase, line_items, 1)

(***************************************************************************)
(* VISAAvionUnlimited.process_page_lines.  The iterator over line_items is *)
(* the cursor: line_item is line_items[cursor], and None once the cursor   *)
(* is past the end (get_next_line turns StopIteration into None).          *)
(***************************************************************************)
LookaheadWindow == 2     \* 'amount_lines_processed <= 2'

\* The inner while loop: reads the next line, raises TypeError when the
\* iterator is exhausted (dollar_regex.search(None)), stops at the first line
\* that ends in a $ amount.
RECURSIVE Lookahead(_, _, _)
Lookahead(line_items, cursor, amount_lines_processed) ==
    IF amount_lines_processed > LookaheadWindow
    THEN [found_amount |-> FALSE, amount_lines_processed |-> amount_lines_processed,
          error |-> "", amount |-> 0]
    ELSE LET at == cursor + amount_lines_processed
         IN  IF at > Len(line_items)
             THEN [found_amount |-> FALSE,
                   amount_lines_processed |-> amount_lines_processed,
                   error |-> "TypeError", amount |-> 0]
             ELSE IF TrailingDollar(line_items[at])
             THEN [found_amount |-> TRUE,
                   amount_lines_processed |-> amount_lines_processed,
                   error |-> "",
                   amount |-> AmountOf[line_items[at][Len(line_items[at])]]]
             ELSE Lookahead(line_items, cursor, amount_lines_processed + 1)

\* 'line_number += 1; line_item = get_next_line(line_items_itr)'
Advance(st) == [st EXCEPT !.cursor = @ + 1, !.line_number = @ + 1]

\* Mutant of Consume: the lookahead peeks at the lines without taking them.
ConsumeNone(st, n) == st

\* The lines the lookahead read are behind the iterator:
\* 'line_number += amount_lines_processed'.
Consume(st, n) == [st EXCEPT !.line_number = @ + n, !.cursor = @ + n]

\* One iteration of 'while line_item is not None'.
B_Step(st, cats, oidbase, line_items) ==
    LET line_item == line_items[st.cursor]
    IN  IF line_item = StartOfItemsB THEN Advance([st EXCEPT !.found_start = TRUE])
        ELSE IF BeforeStart(st) THEN Advance(st)
        ELSE LET r == B_process_line(cats, Append(oidbase, st.cursor), st.line_number,
                                     line_item, st.previous_line_item,
                                     st.current_date, st.current_year)
                 expense == BackfillDate(r.item)
                 look == Lookahead(line_items, st.cursor, 1)
                 found == r.outcome = "item" /\ expense.line # ""
                          /\ look.error = "" /\ look.found_amount
                 st1 == [st EXCEPT
                            !.current_date = r.current_date,
                            !.current_year = r.current_year,
                            !.previous_line_item = line_item,
                            !.log = Append(@, LogEntry(st.cursor, line_item, st, r,
                                       IF found
                                       THEN st.cursor + look.amount_lines_processed
                                       ELSE 0))]
             IN  IF r.outcome = "None" THEN Advance(st1)
                 ELSE IF expense.line = "" THEN Advance(st1)
                 ELSE IF look.error # "" THEN [st1 EXCEPT !.error = look.error]
                 ELSE IF ~look.found_amount THEN [st1 EXCEPT !.error = "ValueError"]
                 ELSE Advance(Consume(
                         [st1 EXCEPT !.processed_expenses =
                              Append(@, [expense EXCEPT !.amount = look.amount])],
                         look.amount_lines_processed))

RECURSIVE B_PageLoop(_, _, _, _)
B_PageLoop(st, cats, oidbase, line_items) ==
    IF st.error # "" \/ st.cursor > Len(line_items) THEN st
    ELSE B_PageLoop(B_Step(st, cats, oidbase, line_items), cats, oidbase, line_items)

\* 'line_item = next(line_items_itr)' has no default: an empty page raises
\* StopIteration.  'previous_line_item = ""' then overwrites the argument.
B_process_page_lines(cats, oidbase, line_items, previous_line_item, cd, cy) ==
    IF Len(line_items) = 0
    THEN [ScanStart(previous_line_item, cd, cy) EXCEPT !.error = "StopIteration"]
    ELSE B_PageLoop(ScanStart(<<>>, cd, cy), cats, oidbase, line_items)

(***************************************************************************)
(* Inputs: the category configuration and the lines a page may hold.       *)
(***************************************************************************)
\* categories.json, flattened in iteration order (page, category, pattern).
\* "COFFEE SHOP" is configured twice; "TRANSFER" has an empty friendly name.
Config1 ==
    << [page |-> "Food", category |-> "Dining", pattern |-> "COFFEE SHOP",
        friendly_name |-> "Coffee"],
       [page |-> "Food", category |-> "Dining", pattern |-> "COFFEE",
        friendly_name |-> NullName],
       [page |-> "Home", category |-> "Grocery", pattern |-> "MARKET",
        friendly_name |-> "Market"],
       [page |-> "Ignore", category |-> "Transfers", pattern |-> "TRANSFER",
        friendly_name |-> ""],
       [page |-> "Travel", category |-> "Meals", pattern |-> "COFFEE SHOP",
        friendly_name |-> "Cafe"] >>
\* The same patterns in another order: the shorter pattern comes first.
Config2 ==
    << [page |-> "Home", category |-> "Grocery", pattern |-> "MARKET",
        friendly_name |-> "Market"],
       [page |-> "Food", category |-> "Dining", pattern |-> "COFFEE",
        friendly_name |-> NullName],
       [page |-> "Food", category |-> "Dining", pattern |-> "COFFEE SHOP",
        friendly_name |-> "Coffee"],
       [page |-> "Ignore", category |-> "Transfers", pattern |-> "TRANSFER",
        friendly_name |-> ""] >>

LinesA(p) ==
    IF p = "e2e"
    THEN { StartOfItemsA,
           <<"2 Jan", "Visa Debit purchase - 1">>,
           <<"COFFEE", "4.50", "Visa Debit purchase - 2">>,
           <<"COFFEE", "4.50", "Visa Debit correction - 2">>,
           <<"COFFEE", "4.50", "Visa Debit correction - 1">>,
           <<"COFFEE", "4.50">> }
    ELSE IF p = "batch"
    THEN { StartOfItemsA, <<"COFFEE", "4.50">>, <<"Item returned NSF", "7.25">>,
           <<"MARKET">> }
    ELSE IF p = "tags"
    THEN { StartOfItemsA,
           <<"28 Dec", "Item returned NSF", "7.25">>,
           <<"Item returned NSF", "7.25", "COFFEE">>,
           <<"Visa Debit purchase - 1">>,
           <<"COFFEE", "4.50", "Visa Debit refund - 1">>,
           <<"COFFEE", "4.50", "Visa Debit correction - 2">>,
           <<"Visa Debit correction - 2", "Visa Debit purchase - 1">>,
           <<"COFFEE", "4.50">> }
    ELSE { StartOfItemsA,
           <<"28 Dec", "COFFEE SHOP", "4.50">>,
           <<"2 Jan", "MARKET", "COFFEE SHOP", "7.25">>,
           <<"COFFEE", "4.50">>,
           <<"TRANSFER", "4.50">>,
           <<"Item returned NSF", "7.25">> }

LinesB(p) ==
    IF p \in {"e2e", "batch", "tags"}
    THEN { StartOfItemsB, <<"COFFEE">>, <<"$12.34">> }
    ELSE { StartOfItemsB,
           <<"DEC 28", "DEC 30", "COFFEE SHOP">>,
           <<"JAN 02", "JAN 02", "MARKET", "COFFEE">>,
           <<"COFFEE", "$29.00">>,
           <<"$12.34">>,
           <<"x">> }

\* page.extract_text().splitlines(): any list of lines, within the budget.
PagesOf(lines, n) == UNION {[1..k -> lines] : k \in 0..n}

\* A statement file: the parser markers its name holds, and the date its stem
\* ends in (NoDate when fromisoformat raises ValueError).
StartDates == {<<2023, 1, 5>>}
Statements == [markers : SUBSET {"My Main Money Account", "VISA Avion Unlimited"},
               date : StartDates \cup {NoDate}]

\* The loop over statement_parsers: the last parser whose marker the name holds.
ParserFor(markers) ==
    IF "VISA Avion Unlimited" \in markers THEN "B"
    ELSE IF "My Main Money Account" \in markers THEN "A"
    ELSE None

(***************************************************************************)
(* The drivers: get_expenses, process_statements, process_statement.       *)
(***************************************************************************)
\* An exception nobody catches unwinds every frame: the locals are gone.
Raise(e) ==
    /\ pc' = "raised"
    /\ error' = e
    /\ pages_expenses' = <<>>
    /\ pages_nsfs' = <<>>
    /\ all_expenses' = <<>>
    /\ all_nsfs' = <<>>

\* process_statements takes the next file; process_statement up to the page loop.
BeginStatement ==
    /\ pc = "batch"
    /\ budget >= 1
    /\ budget' = budget - 1
    /\ \E s \in Statements :
        /\ stmt_count' = stmt_count + 1
        /\ IF s.date = NoDate
           THEN /\ UNCHANGED <<pc, error, fmt, current_date, current_year, page_count,
                               pages_expenses, pages_nsfs, previous_page_last_line,
                               all_expenses, all_nsfs>>
           ELSE IF ParserFor(s.markers) = None
           THEN /\ Raise("ValueError")
                /\ UNCHANGED <<fmt, current_date, current_year, page_count,
                               previous_page_last_line>>
           ELSE /\ pc' = "statement"
                /\ fmt' = ParserFor(s.markers)
                /\ current_date' = NoDate
                /\ current_year' = s.date[1]
                /\ page_count' = 0
                /\ pages_expenses' = <<>>
                /\ pages_nsfs' = <<>>
                /\ previous_page_last_line' = <<>>
                /\ UNCHANGED <<error, all_expenses, all_nsfs>>
    /\ UNCHANGED <<profile, categories, page, page_prev, ret, log, runs, filter_log>>

\* The rest of one turn of the page loop of process_statement, given the page's
\* lines and what process_page made of them: the two extends and the carried line.
ScanPage(line_items, st) ==
    /\ budget' = budget - 1 - Len(line_items)
    /\ page' = line_items
    /\ page_prev' = previous_page_last_line
    /\ log' = st.log
    /\ current_date' = st.current_date
    /\ current_year' = st.current_year
    /\ page_count' = page_count + 1
    /\ IF st.error # ""
       THEN /\ Raise(st.error)
            /\ ret' = [parser |-> fmt, raised |-> TRUE, expenses |-> <<>>,
                       nsfs |-> <<>>, last |-> <<>>]
            /\ UNCHANGED previous_page_last_line
       ELSE /\ ret' = [parser |-> fmt, raised |-> FALSE,
                       expenses |-> st.processed_expenses,
                       nsfs |-> st.processed_nsfs,
                       last |-> st.previous_line_item]
            /\ pages_expenses' = pages_expenses \o st.processed_expenses
            /\ pages_nsfs' = pages_nsfs \o st.processed_nsfs
            /\ previous_page_last_line' = st.previous_line_item
            /\ UNCHANGED <<pc, error, all_expenses, all_nsfs>>
    /\ UNCHANGED <<profile, categories, stmt_count, fmt, runs, filter_log>>

\* One turn of the page loop in a MyMainMoney statement: Parser.process_page hands
\* the page's lines to the inherited process_page_lines.
ScanPageA ==
    /\ pc = "statement"
    /\ fmt = "A"
    /\ budget >= 1
    /\ \E line_items \in PagesOf(LinesA(profile), budget - 1) :
        ScanPage(line_items,
                 A_process_page_lines(categories, <<stmt_count, page_count + 1>>,
                                      line_items, previous_page_last_line,
                                      current_date, current_year))

\* One turn of the page loop in a VISAAvionUnlimited statement: Parser.process_page
\* hands the page's lines to the overriding process_page_lines.
ScanPageB ==
    /\ pc = "statement"
    /\ fmt = "B"
    /\ budget >= 1
    /\ \E line_items \in PagesOf(LinesB(profile), budget - 1) :
        ScanPage(line_items,
                 B_process_page_lines(categories, <<stmt_count, page_count + 1>>,
                                      line_items, previous_page_last_line,
                                      current_date, current_year))

\* process_statement returns; process_statements extends its two lists.
EndStatement ==
    /\ pc = "statement"
    /\ pc' = "batch"
    /\ all_expenses' = all_expenses \o pages_expenses
    /\ all_nsfs' = all_nsfs \o pages_nsfs
    /\ pages_expenses' = <<>>
    /\ pages_nsfs' = <<>>
    /\ UNCHANGED <<profile, budget, categories, error, stmt_count, fmt, current_date,
                   current_year, page_count, previous_page_last_line, page,
                   page_prev, ret, log, runs, filter_log>>

\* process_statements returns; get_expenses filters the list (in place) and
\* returns it, unless the filter raises.
Resolve ==
    /\ pc = "batch"
    /\ LET r == filter_visa_debit_corrections(all_expenses)
       IN  /\ filter_log' = r.entries
           /\ IF r.error # ""
              THEN /\ Raise(r.error)
                   /\ runs' = <<all_expenses>>
              ELSE /\ pc' = "done"
                   /\ all_expenses' = r.expenses
                   /\ runs' = <<all_expenses, r.expenses>>
                   /\ UNCHANGED <<error, pages_expenses, pages_nsfs, all_nsfs>>
    /\ UNCHANGED <<profile, budget, categories, stmt_count, fmt, current_date,
                   current_year, page_count, previous_page_last_line, page,
                   page_prev, ret, log>>

\* filter_visa_debit_corrections called on a list, and again on what it returned.
FilterPass ==
    /\ pc = "filter"
    /\ Len(runs) < 3
    /\ LET r == filter_visa_debit_corrections(all_expenses)
       IN  /\ filter_log' = r.entries
           /\ IF r.error # ""
              THEN /\ Raise(r.error)
                   /\ UNCHANGED runs
              ELSE /\ all_expenses' = r.expenses
                   /\ runs' = Append(runs, r.expenses)
                   /\ UNCHANGED <<pc, error, pages_expenses, pages_nsfs, all_nsfs>>
    /\ UNCHANGED <<profile, budget, categories, stmt_count, fmt, current_date,
                   current_year, page_count, previous_page_last_line, page,
                   page_prev, ret, log>>

(***************************************************************************)
(* Specifications.                                                         *)
(***************************************************************************)
NoRet == [parser |-> None, raised |-> FALSE, expenses |-> <<>>, nsfs |-> <<>>,
          last |-> <<>>]

InitRun(p, n, configs) ==
    /\ profile = p
    /\ budget = n
    /\ categories \in {load_categories(c) : c \in configs}
    /\ pc = "batch"
    /\ error = ""
    /\ stmt_count = 0
    /\ fmt = None
    /\ current_date = NoDate
    /\ current_year = 0
    /\ page_count = 0
    /\ pages_expenses = <<>>
    /\ pages_nsfs = <<>>
    /\ previous_page_last_line = <<>>
    /\ all_expenses = <<>>
    /\ all_nsfs = <<>>
    /\ page = <<>>
    /\ page_prev = <<>>
    /\ ret = NoRet
    /\ log = <<>>
    /\ runs = <<>>
    /\ filter_log = <<>>

\* A batch of statements of both formats, parsed and filtered.
Init == InitRun("scan", MaxInput, {Config1, Config2})
Next == BeginStatement \/ ScanPageA \/ ScanPageB \/ EndStatement \/ Resolve
Spec == Init /\ [][Next]_vars

\* The same program on virtual-debit lines.
InitE2E == InitRun("e2e", MaxInputE2E, {Config1})
SpecE2E == InitE2E /\ [][Next]_vars

\* The same program on a batch of short statements.
InitBatch == InitRun("batch", MaxInputBatch, {Config1})
SpecBatch == InitBatch /\ [][Next]_vars

\* The same program on returned-item and virtual-debit lines.
InitTags == InitRun("tags", MaxInputTags, {Config1})
SpecTags == InitTags /\ [][Next]_vars

\* The filter on its own, on any list of expenses.
VisaDebitIds == {None, "1", "2"}
\* The date a parser left in a record: a date, or '' when no dated line came first.
RecordDates == {<<2023, 1, 5>>, EmptyDate}
ExpenseLists ==
    UNION {[1..n -> VisaDebitIds \X RecordDates] : n \in 0..MaxExpenses}
InitFilter ==
    /\ \E recs \in ExpenseLists :
        all_expenses = [i \in 1..Len(recs) |->
                           [Expense(<<0, 0, i>>, recs[i][2]) EXCEPT
                               !.visa_debit_id = recs[i][1]]]
    /\ runs = <<all_expenses>>
    /\ pc = "filter"
    /\ profile = "filter"
    /\ budget = 0
    /\ categories = <<>>
    /\ error = ""
    /\ stmt_count = 0
    /\ fmt = None
    /\ current_date = NoDate
    /\ current_year = 0
    /\ page_count = 0
    /\ pages_expenses = <<>>
    /\ pages_nsfs = <<>>
    /\ previous_page_last_line = <<>>
    /\ all_nsfs = <<>>
    /\ page = <<>>
    /\ page_prev = <<>>
    /\ ret = NoRet
    /\ log = <<>>
    /\ filter_log = <<>>
NextFilter == FilterPass
SpecFilter == InitFilter /\ [][NextFilter]_vars

(***************************************************************************)
(* Properties of the filter (SpecFilter).                                  *)
(***************************************************************************)
Occurrences(list, id) == {i \in 1..Len(list) : list[i].visa_debit_id = id}
Min(S) == CHOOSE x \in S : \A y \in S : x <= y
FirstOf(list, id) == list[Min(Occurrences(list, id))]
SecondOf(list, id) ==
    list[Min(Occurrences(list, id) \ {Min(Occurrences(list, id))})]
RealIds(list) == {list[i].visa_debit_id : i \in 1..Len(list)} \ {None}

\* C1: after one run of the filter, for every visa_debit_id that occurs two or
\* more times in the input, the first record with that id and the next record
\* with that id are both absent from the result.
C1_PairsRemoved ==
    Len(runs) >= 2 =>
        \A id \in RealIds(runs[1]) :
            Cardinality(Occurrences(runs[1], id)) >= 2 =>
                /\ FirstOf(runs[1], id) \notin Range(runs[2])
                /\ SecondOf(runs[1], id) \notin Range(runs[2])

\* C2: the filter is idempotent: a second run on the output of the first
\* removes no further record.
C2_Idempotent == Len(runs) = 3 => runs[3] = runs[2]

PosIn(list, x) == CHOOSE k \in 1..Len(list) : list[k] = x

\* The records of list out are records of list in, in the order they have there.
KeepsOrder(in, out) ==
    /\ \A i \in 1..Len(out) : out[i] \in Range(in)
    /\ \A i, j \in 1..Len(out) : i < j => PosIn(in, out[i]) < PosIn(in, out[j])

\* C11: the filter never removes a record whose visa_debit_id is None, and the
\* records that remain appear in the same relative order as in the input.
C11_UntaggedKeptInOrder ==
    \A k \in 2..Len(runs) :
        /\ \A i \in 1..Len(runs[k - 1]) :
               runs[k - 1][i].visa_debit_id = None => runs[k - 1][i] \in Range(runs[k])
        /\ KeepsOrder(runs[k - 1], runs[k])

\* A pass that removed the records on both sides of a record with no id and
\* left at least one more record after it.
C11_Witness ==
    /\ Len(runs) >= 2
    /\ \E i, j, k, l \in 1..Len(runs[1]) :
           /\ i < j /\ j < k /\ k < l
           /\ runs[1][i] \notin Range(runs[2])
           /\ runs[1][j].visa_debit_id = None
           /\ runs[1][k] \notin Range(runs[2])
           /\ runs[1][l] \in Range(runs[2])

\* The iterations of the last pass that met a record whose id had been paired
\* and removed earlier in the pass, and tried the removal again.
FailedRemovals ==
    {i \in 1..Len(filter_log) :
        /\ filter_log[i].what = "failed"
        /\ \E j \in 1..(i - 1) :
               /\ filter_log[j].what = "removed"
               /\ filter_log[j].expense.visa_debit_id =
                      filter_log[i].expense.visa_debit_id}

StartOfItems(parser) == IF parser = "A" THEN StartOfItemsA ELSE StartOfItemsB
Scanned == ret.parser # None
HeaderPositions == {i \in 1..Len(page) : page[i] = StartOfItems(ret.parser)}
LogPositions == {log[i].pos : i \in 1..Len(log)}
Returned == Range(ret.expenses) \cup Range(ret.nsfs)

\* The virtual-debit header a line of the page follows, <<mode, id>>, or <<>>.
HeaderBefore(pos) ==
    IF pos > 1 /\ VisaDebitAt(page[pos - 1]) # 0
    THEN VisaDebitGroups[page[pos - 1][VisaDebitAt(page[pos - 1])]]
    ELSE <<>>
OnePageRun == pc = "done" /\ stmt_count = 1 /\ page_count = 1 /\ ret.parser = "A"
Parsed == runs[1]
Final == runs[2]
IdsOnce == {id \in RealIds(Parsed) : Cardinality(Occurrences(Parsed, id)) = 1}
IdsTwice == {id \in RealIds(Parsed) : Cardinality(Occurrences(Parsed, id)) = 2}

\* C3: end to end for Format A, when a category-matched line follows a
\* 'Visa Debit purchase - X' header and a later category-matched line follows
\* a 'Visa Debit correction - X' header, both records are absent from the
\* final list; a record under 'Visa Debit purchase - Y' with no other line
\* for Y is in the final list with reversal = FALSE.  (Stated for runs of
\* one page in which X is carried by exactly these two records.)
C3_RoundTrip ==
    OnePageRun =>
        /\ \A i, j \in 1..Len(Parsed) :
               ( /\ i < j
                 /\ Parsed[i].visa_debit_id \in IdsTwice
                 /\ Parsed[j].visa_debit_id = Parsed[i].visa_debit_id
                 /\ HeaderBefore(Parsed[i].oid[3]) = <<"purchase", Parsed[i].visa_debit_id>>
                 /\ HeaderBefore(Parsed[j].oid[3]) = <<"correction", Parsed[i].visa_debit_id>> )
               => Parsed[i] \notin Range(Final) /\ Parsed[j] \notin Range(Final)
        /\ \A i \in 1..Len(Parsed) :
               ( /\ Parsed[i].visa_debit_id \in IdsOnce
                 /\ HeaderBefore(Parsed[i].oid[3]) = <<"purchase", Parsed[i].visa_debit_id>> )
               => Parsed[i] \in Range(Final) /\ ~Parsed[i].reversal

\* C4: whenever a dated line triggers a year-rollover rule, the date recorded
\* for that line (the parser's current_date, and the date of the record built
\* from the line) lies in the updated tracked year.
C4_RolloverDateInNewYear ==
    \A i \in 1..Len(log) :
        log[i].year_after # log[i].year_before =>
            /\ log[i].date_after[1] = log[i].year_after
            /\ log[i].outcome = "item" => log[i].item.date[1] = log[i].year_after

MonthOf(line) ==
    IF DateMatchA(line) THEN DayMonthA[line[1]][2]
    ELSE IF DateMatchB(line) THEN DayMonthB[line[1]][2]
    ELSE 0

\* C5: in the date tracker of both parsers, a dated December line met before
\* any date is set decrements current_year by exactly one, a dated January
\* line met when the date set before is in December increments it by exactly
\* one, and no other line changes current_year.
C5_YearRules ==
    \A i \in 1..Len(log) :
        LET e == log[i]
            first_december == MonthOf(e.line) = 12 /\ e.date_before = NoDate
            january_after_december ==
                MonthOf(e.line) = 1 /\ e.date_before # NoDate /\ e.date_before[2] = 12
        IN  e.year_after = e.year_before
                + (IF first_december THEN -1 ELSE 0)
                + (IF january_after_december THEN 1 ELSE 0)

\* C6: in both scanners, on every page, no line before the first header marker
\* (nor the marker itself) is passed to the line classifier, and no Expense or
\* NSF record is produced from it.
C6_HeaderSkip ==
    /\ \A p \in LogPositions : \E h \in HeaderPositions : h < p
    /\ \A r \in Returned : \E h \in HeaderPositions : h < r.oid[3]

\* A page with a category line and an NSF or dated line before its marker, and
\* a line after the marker that was classified.
C6_Witness ==
    /\ Scanned
    /\ \E h \in HeaderPositions :
        /\ \E i \in 1..(h - 1) : FirstMatch(categories, page[i]) # 0
        /\ \E p \in LogPositions : p > h
        /\ Returned # {}

\* C7: a page scan over a page with no header marker line (an empty page
\* included) returns an empty Expense list, an empty NSF list and, as the
\* page's last line, the previous-line value that was passed in.
C7_NoMarkerPassThrough ==
    (Scanned /\ HeaderPositions = {}) =>
        /\ ~ret.raised
        /\ ret.expenses = <<>>
        /\ ret.nsfs = <<>>
        /\ ret.last = page_prev

PatternsIn(line) ==
    {k \in 1..Len(categories) : PatternIn(categories[k].pattern, line)}

\* C8: for a line that holds more than one configured category pattern, the
\* record produced takes its page, category and label from the pattern that
\* comes first in the iteration order of the Category Index, in both parsers.
C8_FirstMatchWins ==
    \A r \in Range(ret.expenses) :
        LET ks == PatternsIn(page[r.oid[3]])
        IN  Cardinality(ks) >= 2 =>
                /\ r.page = categories[Min(ks)].page
                /\ r.category = categories[Min(ks)].category
                /\ r.line = categories[Min(ks)].friendly_name

\* A Format B record built from a line whose first token-wise pattern is not
\* the first pattern of the index.
C8_Witness ==
    /\ ret.parser = "B"
    /\ \E r \in Range(ret.expenses) :
        LET line == page[r.oid[3]]
        IN  /\ Cardinality(PatternsIn(line)) >= 2
            /\ \E t \in 1..Len(line) :
                   /\ \E k \in PatternsIn(line) :
                          k # Min(PatternsIn(line)) /\ categories[k].pattern = line[t]
                   /\ \A u \in 1..t : categories[Min(PatternsIn(line))].pattern # line[u]

\* The first of the next LookaheadWindow lines of the page that ends in a
\* currency token, 0 when there is none.
AmountLineAfter(p) ==
    LET cands == {q \in (p + 1)..(p + LookaheadWindow) :
                      q <= Len(page) /\ TrailingDollar(page[q])}
    IN  IF cands = {} THEN 0 ELSE Min(cands)

C10_EarlierStatementsKept ==
    [][ (pc = "statement" /\ error = "" /\ error' = "ValueError"
             /\ all_expenses # <<>>) =>
            /\ pc' = "batch"
            /\ all_expenses' = all_expenses
            /\ all_nsfs' = all_nsfs ]_vars

\* The line holds the returned-item marker followed by an amount, anywhere.
HoldsNSF(line) ==
    \E t \in 1..(Len(line) - 1) : line[t] = NSFMarker /\ IsAmount(line[t + 1])

RecordsAt(records, pos) == {i \in 1..Len(records) : records[i].oid[3] = pos}

\* C12: in Format A, a line after the header that holds the returned-item NSF
\* marker followed by an amount, at any position in the line, yields exactly
\* one NSF record dated at the tracker's current date and never an Expense
\* record, even when the line also holds a category pattern.
C12_NSFAnywhere ==
    ret.parser = "A" =>
        \A i \in 1..Len(log) :
            HoldsNSF(log[i].line) =>
                /\ log[i].outcome = "item"
                /\ log[i].item.kind = "NSF"
                /\ log[i].item.date = log[i].date_after
                /\ ~ret.raised =>
                       /\ Cardinality(RecordsAt(ret.nsfs, log[i].pos)) = 1
                       /\ RecordsAt(ret.expenses, log[i].pos) = {}

\* The virtual-debit headers a line holds, as <<subtype, id>>.
HeadersIn(line) ==
    {VisaDebitGroups[line[t]] : t \in {u \in 1..Len(line) : line[u] \in DOMAIN VisaDebitGroups}}

\* The record carries the id and the reversal flag the headers of the line call for.
TaggedFrom(record, line) ==
    /\ \A n \in VisaDebitIds \ {None} :
           (record.visa_debit_id = n) <=> (\E h \in HeadersIn(line) : h[2] = n)
    /\ record.reversal <=> (\E h \in HeadersIn(line) : h[1] \in {"correction", "refund"})
    /\ HeadersIn(line) = {} => record.visa_debit_id = None /\ ~record.reversal

ExpenseEntries ==
    {i \in 1..Len(log) : log[i].outcome = "item" /\ log[i].item.kind = "Expense"}

\* C17, as claimed: in Format A, an Expense record has visa_debit_id = N exactly
\* when the line immediately preceding its line (for the first classified line
\* of a page: the last line carried over from the previous page) holds a
\* virtual-debit header of subtype purchase, correction or refund with id N;
\* reversal is true exactly when that subtype is correction or refund, and a
\* record whose preceding line has no such header has no id and reversal false.
C17_TagFromPrecedingLine ==
    ret.parser = "A" =>
        \A i \in ExpenseEntries :
            TaggedFrom(log[i].item,
                       IF i = 1 THEN page_prev ELSE page[log[i].pos - 1])

\* The leftmost virtual-debit header of a line, as a line of its own.
LeftmostHeader(line) ==
    LET ts == {u \in 1..Len(line) : line[u] \in DOMAIN VisaDebitGroups}
    IN  IF ts = {} THEN <<>> ELSE <<line[Min(ts)]>>

\* C17, amended: the same, where the preceding line is the line most recently
\* passed to the classifier before the record's line (header marker lines are
\* not passed to it; for the first classified line of a page it is the last
\* line carried over from the previous page) and the header is the leftmost
\* virtual-debit header of that line.
C17_TagFromPreviousClassifiedLine ==
    ret.parser = "A" =>
        \A i \in ExpenseEntries :
            TaggedFrom(log[i].item,
                       LeftmostHeader(IF i = 1 THEN page_prev ELSE log[i - 1].line))

\* The first classified line of a second page gave a record that takes id and
\* reversal from a refund header on the line carried over from the first page.
C17_Witness ==
    /\ ret.parser = "A"
    /\ page_count = 2
    /\ 1 \in ExpenseEntries
    /\ \E h \in HeadersIn(page_prev) : h[1] = "refund"
    /\ \E r \in Range(ret.expenses) :
           r.oid[3] = log[1].pos /\ r.reversal /\ r.visa_debit_id = "1"

\* The iterations of the scan whose line the classifier matched to a category
\* with a label: the lines the scanners go on to build a record from.
LabelledEntries ==
    {i \in 1..Len(log) : log[i].outcome = "item" /\ log[i].item.kind = "Expense"
                             /\ log[i].item.line # ""}
LastToken(line) == line[Len(line)]
EndedAt(i) == ret.raised /\ i = Len(log)

\* C13: in Format B, a category-matched line that ends in its own currency
\* token gets that amount, consumes no following line and raises no error.
C13_InlineAmount ==
    ret.parser = "B" =>
        \A i \in LabelledEntries :
            LET p == log[i].pos
            IN  TrailingDollar(log[i].line) =>
                    /\ ~EndedAt(i)
                    /\ ~ret.raised =>
                           \E r \in Range(ret.expenses) :
                               /\ r.oid[3] = p
                               /\ r.amount = AmountOf[LastToken(log[i].line)]
                    /\ p < Len(page) =>
                           \/ page[p + 1] = StartOfItemsB
                           \/ p + 1 \in LogPositions

\* The lines of the page after its first header marker that hold a configured
\* category pattern and are neither a marker nor a returned-item line.
CategoryLines ==
    {p \in 1..Len(page) :
        /\ \E h \in HeaderPositions : h < p
        /\ page[p] # StartOfItems(ret.parser)
        /\ PatternsIn(page[p]) # {}
        /\ ~HoldsNSF(page[p])}

\* C14: in either format, every line after the header marker that holds a
\* configured category pattern (and is not an NSF line) ends in exactly one
\* Expense record in the page's result, unless the scan ended in a fatal parse
\* error; it is never skipped without a record.
C14_NoMatchedLineSkipped ==
    (Scanned /\ ~ret.raised) =>
        \A p \in CategoryLines : Cardinality(RecordsAt(ret.expenses, p)) = 1

\* C15: in Format B, a category-matched line for which none of the next two
\* lines ends in a currency token ends the page scan with the missing-amount
\* fatal parse error (ValueError) and no record for the line, also when fewer
\* than two lines remain on the page after it.
C15_MissingAmountB ==
    ret.parser = "B" =>
        \A i \in LabelledEntries :
            AmountLineAfter(log[i].pos) = 0 =>
                /\ EndedAt(i)
                /\ error = "ValueError"
                /\ RecordsAt(ret.expenses, log[i].pos) = {}

\* C20: every Expense and NSF record a page scan of either format returns has
\* a calendar date in its date field, also when it was built from a line met
\* before any dated line of the statement.
C20_RecordsDated ==
    \A r \in Returned : Len(r.date) = 3 /\ r.date[1] \in Int

\* The category lines of the page that hold no currency-number token.
NoAmountLines ==
    {p \in CategoryLines : \A t \in 1..Len(page[p]) : ~IsAmount(page[p][t])}

\* C16: in Format A, a line that holds a category pattern but no currency-number
\* token raises a fatal parse error: the scan ends at that line (no later line
\* is classified) and nothing is returned for the page.
C16_MissingAmountA ==
    (ret.parser = "A" /\ NoAmountLines # {}) =>
        /\ ret.raised
        /\ error = "ValueError"
        /\ pc = "raised"
        /\ log[Len(log)].pos = Min(NoAmountLines)
        /\ log[Len(log)].outcome = "ValueError"
        /\ ret.expenses = <<>> /\ ret.nsfs = <<>>

\* A Format A page with a category line that has an amount, then a category
\* line that has none, then at least one more line.
C16_Witness ==
    /\ ret.parser = "A"
    /\ NoAmountLines # {}
    /\ Min(NoAmountLines) < Len(page)
    /\ \E p \in CategoryLines : p < Min(NoAmountLines)

\* Within the page scanned last: the tracker is handed from line to line, a
\* line with no date token leaves it as it was, and a record built from such a
\* line carries the date the tracker held.
UndatedLinesInherit ==
    \A i \in 1..Len(log) :
        /\ i > 1 => /\ log[i].date_before = log[i - 1].date_after
                    /\ log[i].year_before = log[i - 1].year_after
        /\ MonthOf(log[i].line) = 0 =>
               /\ log[i].date_after = log[i].date_before
               /\ log[i].year_after = log[i].year_before
               /\ (log[i].outcome = "item" /\ log[i].date_before # NoDate) =>
                      /\ log[i].item.date = log[i].date_before
                      /\ \A r \in Returned :
                             r.oid[3] = log[i].pos => r.date = log[i].date_before

\* A page scan starts from the tracker the page before left and leaves the
\* tracker of its last classified line.
TrackerCrossesPages ==
    (pc = "statement" /\ page_count' = page_count + 1) =>
        IF log' = <<>>
        THEN current_date' = current_date /\ current_year' = current_year
        ELSE /\ log'[1].date_before = current_date
             /\ log'[1].year_before = current_year
             /\ current_date' = log'[Len(log')].date_after
             /\ current_year' = log'[Len(log')].year_after

\* A statement's parser starts with no date and the year of its start date.
StatementStartsFresh ==
    (pc = "batch" /\ pc' = "statement") =>
        /\ current_date' = NoDate
        /\ current_year' \in {d[1] : d \in StartDates}

\* C19: a line with no date token leaves the parser's current_date and
\* current_year unchanged, and a record built from such a line carries the
\* date of the most recent dated line of the same statement, also when that
\* line was on an earlier page; a new statement's parser starts with no
\* current date and current_year = the year of its start date, whatever an
\* earlier statement left.
C19_UndatedLinesInherit ==
    [][UndatedLinesInherit' /\ TrackerCrossesPages /\ StatementStartsFresh]_vars

\* A second page with no dated line whose record carries a calendar date: the
\* date of a line of the first page.
C19_Witness ==
    /\ page_count = 2
    /\ ~ret.raised
    /\ log # <<>>
    /\ \A i \in 1..Len(log) : MonthOf(log[i].line) = 0
    /\ \E r \in Returned : Len(r.date) = 3 /\ r.date = current_date

====
